---- MODULE Spec2Model ----
(***************************************************************************)
(* The iteration protocol of vm/src/obj/objiter.rs: the protocol functions *)
(* get_iter, call_next, get_next_object, get_all and new_stop_iteration,   *)
(* and the generic cursor PyIteratorValue with its __next__ and __iter__.  *)
(*                                                                         *)
(* One container `obj` is walked.  Its kind is one of the four kinds the   *)
(* cursor dispatches on.  Cursors over it live in the slots of Cursors.    *)
(* Two further iterators stand for iterators of other types reached by     *)
(* dynamic dispatch: "user", whose __next__ may return or raise anything,  *)
(* and "endless", whose __next__ always returns a value.                   *)
(***************************************************************************)
EXTENDS Integers, Sequences, FiniteSets, TLC

\* ------------------------------------------------------------------ bounds
MaxLen == 3
MaxStop == 3
MaxDrain == 3

\* Two byte values, enough to tell the elements of a container apart.
Vals == {1, 2}
Cursors == {"c1", "c2"}
CustomIters == {"user", "endless"}
Iterators == Cursors \cup CustomIters
Kinds == {"range", "bytes", "bytearray", "sequence"}
MutableKinds == {"bytearray", "sequence"}

VARIABLES
    obj,        \* the walked container: kind, data, and start/stop/step of a range
    created,    \* the cursor slots in use
    position,   \* PyIteratorValue.position of each cursor
    produced,   \* history: the values each cursor's successful advances returned
    mutated,    \* history: the container was mutated since the cursor was created
    exh,        \* history: "no", or the cursor reported exhaustion and the
                \*   container was ("stale") or was not ("clean") mutated since
    origLen,    \* history: the container's length when the cursor was created
    appended,   \* history: the latest append, and whether it is the latest mutation
    consumed,   \* the number of values the "user" iterator has returned
    pc,         \* "idle", or "loop" while get_all runs
    drainIt,    \* the iterator get_all is draining
    drainPre,   \* history: the position of drainIt when get_all was entered
    elements,   \* get_all's local vector
    last        \* what the latest operation was called on and what it returned

vars == <<obj, created, position, produced, mutated, exh, origLen, appended, consumed,
          pc, drainIt, drainPre, elements, last>>

\* ----------------------------------------------------------------- results
NoErr == [cls |-> "none", msg |-> ""]
Ok(v) == [tag |-> "Ok", val |-> v, err |-> NoErr]
Err(e) == [tag |-> "Err", val |-> 0, err |-> e]
SomeRes(v) == [tag |-> "Some", val |-> v, err |-> NoErr]
NoneRes == [tag |-> "None", val |-> 0, err |-> NoErr]
NoCall == [tag |-> "NoCall", val |-> 0, err |-> NoErr]

\* The exception classes that occur, each with the classes it is an instance of.
ErrClasses == {"StopIteration", "MyStop", "ValueError"}
Mro(cls) ==
    CASE cls = "StopIteration" -> {"StopIteration", "Exception"}
      [] cls = "MyStop" -> {"MyStop", "StopIteration", "Exception"}
      [] cls = "ValueError" -> {"ValueError", "Exception"}
      [] OTHER -> {}

isinstance(e, cls) == cls \in Mro(e.cls)

\* A sentinel of another class, which get_next_object does not take for exhaustion.
new_stop_iteration_value_error == [cls |-> "ValueError", msg |-> "End of iterator"]

new_stop_iteration == [cls |-> "StopIteration", msg |-> "End of iterator"]

\* ------------------------------------------------------------ the container
Container(kind, data, start, stop, step) ==
    [kind |-> kind, data |-> data, start |-> start, stop |-> stop, step |-> step]

SeqsUpTo(n) == UNION {[1..k -> Vals] : k \in 0..n}

\* PyRange::get: the element at logical index `index`, if the range has one.
PyRange_get(range, index) ==
    LET result == range.start + range.step * index IN
    IF (range.step > 0 /\ result < range.stop) \/ (range.step < 0 /\ result > range.stop)
    THEN [some |-> TRUE, val |-> result]
    ELSE [some |-> FALSE, val |-> 0]

\* The length of a range, as len(range(start, stop, step)) computes it.
PyRange_len(range) ==
    IF range.step > 0 /\ range.start < range.stop
    THEN (range.stop - range.start - 1) \div range.step + 1
    ELSE IF range.step < 0 /\ range.start > range.stop
    THEN (range.start - range.stop - 1) \div (0 - range.step) + 1
    ELSE 0

\* objsequence::get_elements: the container's current ordered element view.
get_elements(o) == o.data

\* The container's elements in order, whatever its kind.
Contents(o) ==
    IF o.kind = "range"
    THEN [i \in 1..PyRange_len(o) |-> o.start + (i - 1) * o.step]
    ELSE o.data

\* ------------------------------------------------- PyIteratorValueRef::next
Step(res, pos) == [res |-> res, pos |-> pos]

\* next on a range that counts up by one from start, whatever the step.
next_range_unit(c) ==
    LET int == PyRange_get([obj EXCEPT !.step = 1], position[c]) IN
    IF int.some
    THEN Step(Ok(int.val), position[c] + 1)
    ELSE Step(Err(new_stop_iteration), position[c])

next_range(c) ==
    LET int == PyRange_get(obj, position[c]) IN
    IF int.some
    THEN Step(Ok(int.val), position[c] + 1)
    ELSE Step(Err(new_stop_iteration), position[c])

\* next on bytes with the bound off by one: the last byte is never produced.
next_bytes_short(c) ==
    LET bytes == obj.data IN
    IF position[c] + 1 < Len(bytes)
    THEN Step(Ok(bytes[position[c] + 1]), position[c] + 1)
    ELSE Step(Err(new_stop_iteration), position[c])

\* next on bytes that reads the first byte whatever the position.
next_bytes_head(c) ==
    LET bytes == obj.data IN
    IF position[c] < Len(bytes)
    THEN Step(Ok(bytes[1]), position[c] + 1)
    ELSE Step(Err(new_stop_iteration), position[c])

next_bytes(c) ==
    LET bytes == obj.data IN
    IF position[c] < Len(bytes)
    THEN Step(Ok(bytes[position[c] + 1]), position[c] + 1)
    ELSE Step(Err(new_stop_iteration), position[c])

\* next on a bytearray stepping the position by two.
next_bytearray_skip(c) ==
    LET value == obj.data IN
    IF position[c] < Len(value)
    THEN Step(Ok(value[position[c] + 1]), position[c] + 2)
    ELSE Step(Err(new_stop_iteration), position[c])

\* next on a bytearray with the length taken before the latest append.
next_bytearray_cached(c) ==
    LET value == obj.data
        len == IF appended.fresh THEN appended.idx ELSE Len(value) IN
    IF position[c] < len
    THEN Step(Ok(value[position[c] + 1]), position[c] + 1)
    ELSE Step(Err(new_stop_iteration), position[c])

\* next on a bytearray with the length taken when the cursor was created;
\* past the end of the buffer it yields a zero byte.
next_bytearray_frozen(c) ==
    LET value == obj.data IN
    IF position[c] < origLen[c]
    THEN Step(Ok(IF position[c] < Len(value) THEN value[position[c] + 1] ELSE 0),
              position[c] + 1)
    ELSE Step(Err(new_stop_iteration), position[c])

next_bytearray(c) ==
    LET value == obj.data IN
    IF position[c] < Len(value)
    THEN Step(Ok(value[position[c] + 1]), position[c] + 1)
    ELSE Step(Err(new_stop_iteration), position[c])

\* next on a generic sequence that rewinds the cursor when it runs out.
next_sequence_rewind(c) ==
    LET elems == get_elements(obj) IN
    IF position[c] < Len(elems)
    THEN Step(Ok(elems[position[c] + 1]), position[c] + 1)
    ELSE Step(Err(new_stop_iteration), 0)

\* next on a generic sequence that remembers having run out, and stays so.
next_sequence_latched(c) ==
    LET elems == get_elements(obj) IN
    IF exh[c] = "no" /\ position[c] < Len(elems)
    THEN Step(Ok(elems[position[c] + 1]), position[c] + 1)
    ELSE Step(Err(new_stop_iteration), position[c])

next_sequence(c) ==
    LET elems == get_elements(obj) IN
    IF position[c] < Len(elems)
    THEN Step(Ok(elems[position[c] + 1]), position[c] + 1)
    ELSE Step(Err(new_stop_iteration), position[c])

next(c) ==
    IF obj.kind = "range" THEN next_range(c)
    ELSE IF obj.kind = "bytes" THEN next_bytes(c)
    ELSE IF obj.kind = "bytearray" THEN next_bytearray(c)
    ELSE next_sequence(c)

\* iter that hands out another cursor object, which starts at position 0.
iter_fresh(c) == IF c = "c1" THEN "c2" ELSE "c1"

\* PyIteratorValueRef::iter: the cursor itself.
iter(c) == c

\* ------------------------------------------------------ protocol functions
\* What __next__ of an iterator of another type may do: return a value, or
\* raise an exception of any class.
EnvOutcomes == {Ok(v) : v \in Vals} \cup {Err([cls |-> k, msg |-> "raised"]) : k \in ErrClasses}

\* The outcomes open to the __next__ of `it`: the cursor's and the endless
\* iterator's are decided by their own state; the "user" iterator holds at
\* most MaxDrain values, and raises once they are returned.
EnvFor(it) ==
    IF it # "user" THEN {NoCall}
    ELSE IF consumed < MaxDrain THEN EnvOutcomes
    ELSE {e \in EnvOutcomes : e.tag = "Err"}

\* call_next: dispatch to the __next__ of the iterator's type.
call_next(it, env) ==
    IF it \in Cursors THEN next(it)
    ELSE IF it = "endless" THEN Step(Ok(1), 0)
    ELSE Step(env, 0)

\* get_next_object that takes every error for exhaustion.
get_next_object_swallow(next_obj) ==
    IF next_obj.tag = "Ok" THEN SomeRes(next_obj.val) ELSE NoneRes

\* get_next_object, applied to what call_next returned.
get_next_object(next_obj) ==
    IF next_obj.tag = "Ok" THEN SomeRes(next_obj.val)
    ELSE IF isinstance(next_obj.err, "StopIteration") THEN NoneRes
    ELSE Err(next_obj.err)

\* push at the front of the vector.
push_front(elems, v) == <<v>> \o elems

\* get_all: elements.push(v)
push(elems, v) == Append(elems, v)

\* A round of get_all that returns after the first value.
get_all_round_once(elems, element) ==
    IF element.tag = "Err" THEN [elems |-> <<>>, again |-> FALSE, ret |-> Err(element.err)]
    ELSE IF element.tag = "Some"
    THEN [elems |-> Append(elems, element.val), again |-> FALSE, ret |-> Ok(0)]
    ELSE [elems |-> elems, again |-> FALSE, ret |-> Ok(0)]

\* A round of get_all that takes an error for the end and returns what it has.
get_all_round_partial(elems, element) ==
    IF element.tag = "Err" THEN [elems |-> elems, again |-> FALSE, ret |-> Ok(0)]
    ELSE IF element.tag = "Some"
    THEN [elems |-> Append(elems, element.val), again |-> TRUE, ret |-> NoCall]
    ELSE [elems |-> elems, again |-> FALSE, ret |-> Ok(0)]

\* One round of get_all's loop on `element`, the result of get_next_object:
\* the vector afterwards, whether the loop goes on, and what is returned if not.
get_all_round(elems, element) ==
    IF element.tag = "Err" THEN [elems |-> <<>>, again |-> FALSE, ret |-> Err(element.err)]
    ELSE IF element.tag = "Some"
    THEN [elems |-> push(elems, element.val), again |-> TRUE, ret |-> NoCall]
    ELSE [elems |-> elems, again |-> FALSE, ret |-> Ok(0)]

\* ------------------------------------------------------------------ history
Pos(it) == IF it \in Cursors THEN position[it] ELSE IF it = "user" THEN consumed ELSE 0
ExhOf(it) == IF it \in Cursors THEN exh[it] ELSE "no"

\* The record of a call of `op` on `it`: the position and the exhaustion
\* history it found, what __next__ returned to it (raw) and what it returned.
Called(op, it, raw, res) ==
    [op |-> op, it |-> it, pre |-> Pos(it), wasExh |-> ExhOf(it), entry |-> 0, taken |-> 0,
     raw |-> raw, res |-> res, ret |-> "none", elems |-> <<>>]

\* An advance with one position for all the cursors over the container.
Advanced_shared(it, st) ==
    IF it \in Cursors
    THEN /\ position' = [c \in Cursors |-> IF c \in created THEN st.pos ELSE position[c]]
         /\ produced' = [produced EXCEPT
                ![it] = IF st.res.tag = "Ok" THEN Append(@, st.res.val) ELSE @]
         /\ exh' = [exh EXCEPT ![it] = IF st.res.tag = "Ok" THEN @ ELSE "clean"]
         /\ UNCHANGED consumed
    ELSE /\ consumed' = IF it = "user" /\ st.res.tag = "Ok" THEN consumed + 1 ELSE consumed
         /\ UNCHANGED <<position, produced, exh>>

\* The effect of one __next__ dispatch on iterator `it` with outcome `st`.
Advanced(it, st) ==
    IF it \in Cursors
    THEN /\ position' = [position EXCEPT ![it] = st.pos]
         /\ produced' = [produced EXCEPT
                ![it] = IF st.res.tag = "Ok" THEN Append(@, st.res.val) ELSE @]
         /\ exh' = [exh EXCEPT ![it] = IF st.res.tag = "Ok" THEN @ ELSE "clean"]
         /\ UNCHANGED consumed
    ELSE /\ consumed' = IF it = "user" /\ st.res.tag = "Ok" THEN consumed + 1 ELSE consumed
         /\ UNCHANGED <<position, produced, exh>>

\* --------------------------------------------------------------------- Init
Init ==
    /\ obj \in {Container(k, d, 0, 0, 1) : k \in Kinds \ {"range"}, d \in SeqsUpTo(MaxLen)}
            \cup {Container("range", <<>>, a, b, s) :
                    a \in 0..MaxStop, b \in 0..MaxStop, s \in {-2, -1, 1, 2}}
    /\ created = {}
    /\ position = [c \in Cursors |-> 0]
    /\ produced = [c \in Cursors |-> <<>>]
    /\ mutated = [c \in Cursors |-> FALSE]
    /\ exh = [c \in Cursors |-> "no"]
    /\ origLen = [c \in Cursors |-> 0]
    /\ appended = [idx |-> 0, val |-> 0, fresh |-> FALSE]
    /\ consumed = 0
    /\ pc = "idle"
    /\ drainIt = "none"
    /\ drainPre = 0
    /\ elements = <<>>
    /\ last = [op |-> "init", it |-> "none", pre |-> 0, wasExh |-> "no", entry |-> 0,
               taken |-> 0, raw |-> NoCall, res |-> NoCall, ret |-> "none", elems |-> <<>>]

\* ------------------------------------------------------------------ actions
FreeSlot == IF "c1" \notin created THEN "c1" ELSE "c2"

\* get_iter on the container: its __iter__ makes a cursor at position 0,
\* in a slot of `slots`.
GetIterContainer(slots) ==
    /\ pc = "idle"
    /\ FreeSlot \in slots \ created
    /\ LET c == FreeSlot IN
        /\ created' = created \cup {c}
        /\ origLen' = [origLen EXCEPT ![c] = Len(Contents(obj))]
        /\ last' = [Called("get_iter", "obj", NoCall, NoCall) EXCEPT !.ret = c]
    /\ UNCHANGED <<obj, position, produced, mutated, exh, appended, consumed,
                   pc, drainIt, drainPre, elements>>

\* get_iter on a cursor: dispatches to PyIteratorValueRef::iter.
GetIterCursor(c) ==
    /\ pc = "idle"
    /\ c \in created
    /\ last' = [Called("iter", c, NoCall, NoCall) EXCEPT !.ret = iter(c)]
    /\ UNCHANGED <<obj, created, position, produced, mutated, exh, origLen, appended,
                   consumed, pc, drainIt, drainPre, elements>>

Callable(it) == it \in CustomIters \/ it \in created

\* call_next on a cursor that takes the value it returns out of the container.
CallNext_consuming(it) ==
    /\ pc = "idle"
    /\ Callable(it)
    /\ \E env \in EnvFor(it) :
        LET st == call_next(it, env) IN
        /\ Advanced(it, st)
        /\ last' = Called("call_next", it, st.res, st.res)
        /\ obj' = IF it \in Cursors /\ st.res.tag = "Ok" /\ obj.kind # "range"
                  THEN [obj EXCEPT !.data = Tail(@)]
                  ELSE obj
    /\ UNCHANGED <<created, mutated, origLen, appended, pc, drainIt, drainPre, elements>>

\* call_next(it)
CallNext(it) ==
    /\ pc = "idle"
    /\ Callable(it)
    /\ \E env \in EnvFor(it) :
        LET st == call_next(it, env) IN
        /\ Advanced(it, st)
        /\ last' = Called("call_next", it, st.res, st.res)
    /\ UNCHANGED <<obj, created, mutated, origLen, appended, pc, drainIt, drainPre, elements>>

\* get_next_object(it)
GetNextObject(it) ==
    /\ pc = "idle"
    /\ Callable(it)
    /\ \E env \in EnvFor(it) :
        LET st == call_next(it, env) IN
        /\ Advanced(it, st)
        /\ last' = Called("get_next_object", it, st.res, get_next_object(st.res))
    /\ UNCHANGED <<obj, created, mutated, origLen, appended, pc, drainIt, drainPre, elements>>

\* get_all that starts by putting a cursor back at position 0.
GetAllEnter_rewind(it) ==
    /\ pc = "idle"
    /\ Callable(it)
    /\ pc' = "loop"
    /\ drainIt' = it
    /\ drainPre' = Pos(it)
    /\ elements' = <<>>
    /\ position' = [c \in Cursors |-> IF c = it THEN 0 ELSE position[c]]
    /\ last' = Called("get_all_enter", it, NoCall, NoCall)
    /\ UNCHANGED <<obj, created, produced, mutated, exh, origLen, appended, consumed>>

\* get_all(it): entry, `let mut elements = vec![]`.
GetAllEnter(it) ==
    /\ pc = "idle"
    /\ Callable(it)
    /\ pc' = "loop"
    /\ drainIt' = it
    /\ drainPre' = Pos(it)
    /\ elements' = <<>>
    /\ last' = Called("get_all_enter", it, NoCall, NoCall)
    /\ UNCHANGED <<obj, created, position, produced, mutated, exh, origLen, appended,
                   consumed>>

\* get_all(it): one round of the loop; the last round returns.
GetAllRound ==
    /\ pc = "loop"
    /\ drainIt # "endless" \/ Len(elements) < MaxDrain
    /\ \E env \in EnvFor(drainIt) :
        LET st == call_next(drainIt, env)
            rd == get_all_round(elements, get_next_object(st.res)) IN
        /\ Advanced(drainIt, st)
        /\ IF rd.again
           THEN /\ elements' = rd.elems
                /\ last' = [Called("get_all_loop", drainIt, st.res, get_next_object(st.res))
                              EXCEPT !.entry = drainPre, !.taken = Len(elements)]
                /\ UNCHANGED <<pc, drainIt, drainPre>>
           ELSE /\ elements' = <<>>
                /\ pc' = "idle"
                /\ drainIt' = "none"
                /\ drainPre' = 0
                /\ last' = [Called("get_all", drainIt, st.res, rd.ret)
                              EXCEPT !.entry = drainPre, !.taken = Len(elements),
                                     !.elems = rd.elems]
    /\ UNCHANGED <<obj, created, mutated, origLen, appended>>

Mutation(data) ==
    /\ obj' = [obj EXCEPT !.data = data]
    /\ mutated' = [c \in Cursors |-> c \in created]
    /\ exh' = [c \in Cursors |-> IF exh[c] = "no" THEN "no" ELSE "stale"]
    /\ UNCHANGED <<created, position, produced, origLen, consumed,
                   pc, drainIt, drainPre, elements>>

\* Another holder of the container appends a value to it.
AppendValue(v) ==
    /\ pc = "idle"
    /\ obj.kind \in MutableKinds
    /\ Len(obj.data) < MaxLen
    /\ Mutation(Append(obj.data, v))
    /\ appended' = [idx |-> Len(obj.data), val |-> v, fresh |-> TRUE]
    /\ last' = Called("append", "obj", NoCall, NoCall)

\* Another holder of the container removes the value at index i - 1.
RemoveAt(i) ==
    /\ pc = "idle"
    /\ obj.kind \in MutableKinds
    /\ i \in 1..Len(obj.data)
    /\ Mutation([j \in 1..(Len(obj.data) - 1) |->
                    IF j < i THEN obj.data[j] ELSE obj.data[j + 1]])
    /\ appended' = [idx |-> 0, val |-> 0, fresh |-> FALSE]
    /\ last' = Called("remove", "obj", NoCall, NoCall)

\* One cursor over a container that other holders mutate.
Next ==
    \/ GetIterContainer({"c1"})
    \/ \E c \in Cursors : GetIterCursor(c)
    \/ \E it \in Cursors : CallNext(it)
    \/ \E it \in Cursors : GetNextObject(it)
    \/ \E it \in Cursors : GetAllEnter(it)
    \/ GetAllRound
    \/ \E v \in Vals : AppendValue(v)
    \/ \E i \in 1..MaxLen : RemoveAt(i)

Spec == Init /\ [][Next]_vars

\* The protocol functions on iterators of every type, the container left alone.
ProtocolNext ==
    \/ GetIterContainer({"c1"})
    \/ \E c \in Cursors : GetIterCursor(c)
    \/ \E it \in Iterators : CallNext(it)
    \/ \E it \in Iterators : GetNextObject(it)
    \/ \E it \in Iterators : GetAllEnter(it)
    \/ GetAllRound

ProtocolSpec == Init /\ [][ProtocolNext]_vars

\* get_all on a cursor or on the endless iterator, other holders mutating the
\* container between the calls.
DrainNext ==
    \/ GetIterContainer({"c1"})
    \/ \E it \in Cursors : CallNext(it)
    \/ \E it \in Cursors \cup {"endless"} : GetAllEnter(it)
    \/ GetAllRound
    \/ \E v \in Vals : AppendValue(v)
    \/ \E i \in 1..MaxLen : RemoveAt(i)

\* get_all runs its loop synchronously to completion: a round that can run, runs.
DrainSpec == Init /\ [][DrainNext]_vars /\ WF_vars(GetAllRound)

\* Two cursors over one container that nothing mutates.
SharedNext ==
    \/ GetIterContainer(Cursors)
    \/ \E c \in Cursors : GetIterCursor(c)
    \/ \E it \in Cursors : CallNext(it)
    \/ \E it \in Cursors : GetNextObject(it)
    \/ \E it \in Cursors : GetAllEnter(it)
    \/ GetAllRound

SharedSpec == Init /\ [][SharedNext]_vars

\* =================================================================== claims
AdvanceOps == {"call_next", "get_next_object", "get_all_loop", "get_all"}

\* The latest step dispatched __next__ on a generic cursor.
CursorAdvanced == last.op \in AdvanceOps /\ last.it \in Cursors

StopRaised == Err(new_stop_iteration)

\* C1: over a container of length N that is not mutated, a cursor created at
\* position 0 returns the elements at indices 0..N-1 in order, one per advance,
\* and from the (N+1)-th advance on returns the StopIteration sentinel; with
\* N = 0 the first advance returns it.
C1_ExactlyNThenStop ==
    \A c \in created :
        ~mutated[c] =>
            LET N == Len(Contents(obj)) IN
            /\ position[c] <= N
            /\ produced[c] = SubSeq(Contents(obj), 1, position[c])
            /\ (exh[c] # "no" => position[c] = N)
            /\ (next(c).res.tag = "Ok" <=> position[c] < N)
            /\ (CursorAdvanced /\ last.it = c =>
                    IF last.pre < N
                    THEN /\ last.raw = Ok(Contents(obj)[last.pre + 1])
                         /\ position[c] = last.pre + 1
                    ELSE /\ last.raw = StopRaised
                         /\ position[c] = N)

C1_Witness ==
    /\ "c1" \in created /\ ~mutated["c1"]
    /\ obj.kind = "bytes"
    /\ Len(obj.data) = 3
    /\ Len(produced["c1"]) = 3
    /\ last.op = "call_next" /\ last.raw = StopRaised /\ last.wasExh = "clean"

\* C2: once an advance on a cursor has reported exhaustion, every later advance
\* on it reports exhaustion, whatever happens to the container in between.
C2_ExhaustionIsFinal ==
    CursorAdvanced /\ last.wasExh # "no" => last.raw.tag = "Err"

\* C3: when an advance on a cursor has reported exhaustion and the container
\* has not been mutated since, a further advance reports exhaustion again.
C3_ExhaustionRepeats ==
    CursorAdvanced /\ last.wasExh = "clean" =>
        /\ last.raw = StopRaised
        /\ position[last.it] = last.pre

C3_Witness ==
    /\ CursorAdvanced /\ last.wasExh = "clean"
    /\ last.op = "call_next"
    /\ last.pre >= 2
    /\ mutated[last.it]

\* C4: a step changes a cursor's position only by a successful advance on that
\* cursor, which adds exactly 1 to it; an advance that reports exhaustion,
\* iter and a mutation of the container leave every position as it was.
C4_PositionSteps ==
    [][\A c \in Cursors :
          \/ position'[c] = position[c]
          \/ /\ position'[c] = position[c] + 1
             /\ last'.op \in AdvanceOps
             /\ last'.it = c
             /\ last'.raw.tag = "Ok"]_vars

C4_Witness ==
    /\ CursorAdvanced /\ last.raw.tag = "Ok"
    /\ obj.kind = "bytearray"
    /\ position[last.it] = 2
    /\ mutated[last.it]

\* C5: get_next_object returns Some(v) when __next__ returned v, None when it
\* raised an instance of StopIteration, and the same error when it raised
\* anything else; None is returned in no other case.
C5_OnlyStopBecomesNone ==
    last.op = "get_next_object" =>
        LET stop == last.raw.tag = "Err" /\ "StopIteration" \in Mro(last.raw.err.cls) IN
        /\ last.raw.tag \in {"Ok", "Err"}
        /\ (last.raw.tag = "Ok" => last.res = SomeRes(last.raw.val))
        /\ (stop => last.res = NoneRes)
        /\ (last.raw.tag = "Err" /\ ~stop => last.res = Err(last.raw.err))
        /\ (last.res = NoneRes => stop)

C5_Witness ==
    /\ last.op = "get_next_object"
    /\ last.raw.tag = "Err" /\ last.raw.err.cls = "ValueError"
    /\ last.res.tag = "Err" /\ last.res.err = last.raw.err

\* C6: get_all on a cursor at position 0 returns the container's elements,
\* each once and in order, and leaves the cursor exhausted: its position is
\* the container's length and its next advance reports exhaustion.
C6_DrainReturnsContents ==
    last.op = "get_all" /\ last.it \in Cursors /\ last.entry = 0 =>
        /\ last.res.tag = "Ok"
        /\ last.elems = Contents(obj)
        /\ position[last.it] = Len(Contents(obj))
        /\ next(last.it).res = StopRaised

C6_Witness ==
    /\ last.op = "get_all" /\ last.it \in Cursors /\ last.entry = 0
    /\ Len(last.elems) = 3
    /\ last.elems[1] # last.elems[2]

\* C7: iter on a cursor returns that very cursor and leaves its position
\* alone: after k advances, the cursor it returns stands at index k, and its
\* next advance yields the element at index k, not the one at index 0.
C7_IterIsSelf ==
    last.op = "iter" =>
        LET N == Len(Contents(obj)) IN
        /\ last.ret = last.it
        /\ position[last.ret] = last.pre
        /\ next(last.ret) =
                IF last.pre < N
                THEN Step(Ok(Contents(obj)[last.pre + 1]), last.pre + 1)
                ELSE Step(StopRaised, last.pre)

C7_Witness ==
    /\ last.op = "iter"
    /\ last.pre = 2
    /\ next(last.ret).res.tag = "Ok"
    /\ next(last.ret).res.val # Contents(obj)[1]

\* C8: on a bytearray, after a value is appended at index i and while nothing
\* else mutates the buffer, every advance of a cursor at a position <= i
\* succeeds with the byte now at that position, and the advance at position i
\* yields the appended value: the length is read anew at each advance.
C8_AppendIsReached ==
    CursorAdvanced /\ obj.kind = "bytearray" /\ appended.fresh /\ last.pre <= appended.idx =>
        /\ last.raw = Ok(obj.data[last.pre + 1])
        /\ position[last.it] = last.pre + 1
        /\ (last.pre = appended.idx => last.raw.val = appended.val)

C8_Witness ==
    /\ CursorAdvanced /\ obj.kind = "bytearray" /\ appended.fresh
    /\ last.pre = appended.idx
    /\ appended.idx >= 1
    /\ last.wasExh = "stale"
    /\ last.raw.val = appended.val

\* An advance reported exhaustion after fewer values than the container held
\* when the cursor was created.
PrematurelyExhausted(c) ==
    exh[c] # "no" /\ Len(produced[c]) < origLen[c]

\* A value still in the buffer, at an index the cursor has passed, that the
\* cursor never produced.
SkippedElement(c) ==
    \E j \in 1..Len(obj.data) :
        /\ j <= position[c]
        /\ \A k \in 1..Len(produced[c]) : produced[c][k] # obj.data[j]

\* C9: on a bytearray an advance reports exhaustion exactly when the position
\* is not below the length the buffer has at that call, and otherwise yields
\* the byte now at the position; so removals bring about exhaustion before
\* every original element was produced, and elements that are never produced,
\* and only a mutation of the buffer brings these about.
C9_ShrinkIsSeen ==
    \A c \in created :
        obj.kind = "bytearray" =>
            /\ (CursorAdvanced /\ last.it = c =>
                    IF last.pre >= Len(obj.data)
                    THEN last.raw = StopRaised
                    ELSE last.raw = Ok(obj.data[last.pre + 1]))
            /\ (PrematurelyExhausted(c) \/ SkippedElement(c) => mutated[c])

C9_Witness ==
    /\ obj.kind = "bytearray"
    /\ CursorAdvanced /\ last.it = "c1" /\ last.raw = StopRaised
    /\ last.pre >= 1
    /\ PrematurelyExhausted("c1")
    /\ SkippedElement("c1")
    /\ ~appended.fresh

Max0(n) == IF n > 0 THEN n ELSE 0

\* What holds when get_all returns, with `count` the number of values a cursor
\* found at position p over a container of length N yields.
DrainReturns(count(_, _)) ==
    last.op = "get_all" =>
        /\ last.it # "endless"
        /\ last.raw.tag = "Err"
        /\ (last.it \in Cursors =>
                /\ last.raw = StopRaised
                /\ last.res.tag = "Ok"
                /\ Len(last.elems) = count(Len(Contents(obj)), last.entry))

\* C10 as stated: get_all returns only after its iterator reported exhaustion
\* or raised, never on the endless iterator, and on a cursor found at
\* position p over a container of length N after exactly N - p values and
\* one exhausted advance.
C10_DrainCountIsNMinusP ==
    LET count(N, p) == N - p IN DrainReturns(count)

\* C10, amended: as C10, with max(N - p, 0) values (a cursor that removals
\* left beyond the end yields none); and get_all on a cursor does return.
C10_DrainTerminates ==
    /\ [](LET count(N, p) == Max0(N - p) IN DrainReturns(count))
    /\ (pc = "loop" /\ drainIt \in Cursors) ~> (pc = "idle" /\ last.op = "get_all")

C10_Witness ==
    /\ last.op = "get_all" /\ last.it \in Cursors
    /\ last.entry = 1
    /\ Len(last.elems) = 2
    /\ mutated[last.it]

\* get_all on the endless iterator is still in its loop after MaxDrain values.
C10_EndlessWitness ==
    pc = "loop" /\ drainIt = "endless" /\ Len(elements) = MaxDrain

\* The operations of the protocol on an iterator.
CursorOps == AdvanceOps \cup {"iter", "get_all_enter"}

\* C11: no operation on a cursor changes the walked container: an advance,
\* whatever it returns, iter, get_next_object and every round of get_all leave
\* its length and contents as they were; and between two advances another
\* holder can mutate a mutable container.
C11_ContainerUntouched ==
    /\ [][last'.op \in CursorOps /\ last'.it \in Cursors => obj' = obj]_vars
    /\ [](pc = "idle" /\ created # {} /\ obj.kind \in MutableKinds =>
            /\ (Len(obj.data) < MaxLen => ENABLED AppendValue(1))
            /\ (Len(obj.data) >= 1 => ENABLED RemoveAt(1)))

C11_Witness ==
    /\ last.op = "get_all" /\ last.it \in Cursors
    /\ obj.kind = "bytearray"
    /\ Len(last.elems) = 2
    /\ obj.data = <<1, 2, 1>>
    /\ mutated[last.it]

\* C12: on a range with a step other than 0, an advance at position p yields
\* start + p * step and moves the position to p + 1 exactly when p is below
\* the range's length, and otherwise reports exhaustion and leaves the
\* position; so a descending range is walked downwards and an empty range is
\* exhausted at the first advance.
C12_RangeAdvance ==
    CursorAdvanced /\ obj.kind = "range" =>
        /\ obj.step # 0
        /\ IF last.pre < PyRange_len(obj)
           THEN /\ last.raw = Ok(obj.start + last.pre * obj.step)
                /\ position[last.it] = last.pre + 1
           ELSE /\ last.raw = StopRaised
                /\ position[last.it] = last.pre
        /\ (last.raw.tag = "Ok" /\ obj.step < 0 =>
                obj.stop < last.raw.val /\ last.raw.val <= obj.start)
        /\ (last.raw.tag = "Ok" /\ obj.step > 0 =>
                obj.start <= last.raw.val /\ last.raw.val < obj.stop)

C12_Witness ==
    /\ CursorAdvanced /\ obj.kind = "range"
    /\ obj.step = -1 /\ obj.start = 3 /\ obj.stop = 0
    /\ produced[last.it] = <<3, 2, 1>>
    /\ last.raw = StopRaised

\* C13: an advance of a cursor either yields a value or raises the sentinel,
\* a StopIteration with the message "End of iterator", and nothing else;
\* call_next hands the sentinel to its caller as the error it is, and
\* get_next_object is where it becomes None.
C13_TwoOutcomes ==
    CursorAdvanced =>
        /\ last.raw.tag \in {"Ok", "Err"}
        /\ (last.raw.tag = "Err" =>
                last.raw.err = [cls |-> "StopIteration", msg |-> "End of iterator"])
        /\ (last.op = "call_next" => last.res = last.raw)
        /\ (last.op = "get_next_object" /\ last.raw.tag = "Err" => last.res = NoneRes)

C13_Witness ==
    /\ CursorAdvanced /\ last.op = "call_next"
    /\ last.res.tag = "Err"
    /\ last.res.err.msg = "End of iterator"
    /\ last.pre >= 1

\* C14: on bytes, a bytearray or a generic sequence, whether an advance
\* succeeds is decided by the position and the container's length at that
\* call alone: it succeeds if and only if the position is below the length,
\* whatever earlier advances of the cursor returned.
C14_NoMemory ==
    \A was \in {"no", "clean", "stale"} :
        CursorAdvanced /\ obj.kind # "range" /\ last.wasExh = was =>
            (last.raw.tag = "Ok" <=> last.pre < Len(obj.data))

C14_Witness ==
    /\ CursorAdvanced /\ obj.kind = "sequence"
    /\ last.wasExh = "stale"
    /\ last.raw.tag = "Ok"
    /\ last.pre = 2

\* C15: at every moment a cursor's position is the number of its advances
\* that returned a value, and a value an advance returns is the container's
\* element at the index the position had just before that advance.
C15_PositionCountsValues ==
    \A c \in created :
        /\ position[c] = Len(produced[c])
        /\ (CursorAdvanced /\ last.it = c /\ last.raw.tag = "Ok" =>
                /\ last.pre < Len(Contents(obj))
                /\ last.raw.val = Contents(obj)[last.pre + 1]
                /\ produced[c][last.pre + 1] = last.raw.val)

C15_Witness ==
    /\ CursorAdvanced /\ last.raw.tag = "Ok"
    /\ mutated[last.it]
    /\ position[last.it] = 3
    /\ produced[last.it] # SubSeq(Contents(obj), 1, 3)

\* C16: two cursors over the same container have positions of their own: an
\* advance, iter or get_all on one leaves the position of the other and what
\* its next advance returns as they were, and each cursor gets all the
\* elements of an unmutated container, in order, however the advances of the
\* two are interleaved.
C16_CursorsIndependent ==
    /\ [][\A c \in Cursors :
            last'.it # c =>
                /\ position'[c] = position[c]
                /\ next(c)' = next(c)]_vars
    /\ [](\A c \in created :
            LET N == Len(Contents(obj)) IN
            /\ produced[c] = SubSeq(Contents(obj), 1, position[c])
            /\ (exh[c] # "no" => position[c] = N)
            /\ (next(c).res.tag = "Ok" <=> position[c] < N))

C16_Witness ==
    /\ created = Cursors
    /\ exh["c1"] = "clean" /\ Len(produced["c1"]) = 3
    /\ last.it = "c2" /\ last.op = "call_next" /\ last.pre = 1
    /\ produced["c2"] = SubSeq(produced["c1"], 1, 2)
    /\ produced["c2"][1] # produced["c2"][2]

\* C17: when an advance inside get_all raises an error that is not an
\* exhaustion, after k values, get_all returns that error and none of the k
\* values, and the iterator stays where the k advances left it.
C17_ErrorDropsPartial ==
    last.op = "get_all" /\ last.raw.tag = "Err"
        /\ "StopIteration" \notin Mro(last.raw.err.cls) =>
            /\ last.res = Err(last.raw.err)
            /\ last.elems = <<>>
            /\ Pos(last.it) = last.entry + last.taken

C17_Witness ==
    /\ last.op = "get_all" /\ last.it = "user"
    /\ last.raw.tag = "Err" /\ last.raw.err.cls = "ValueError"
    /\ last.res.tag = "Err"
    /\ last.taken = 2
    /\ last.entry = 1
    /\ consumed = 3

\* C18: get_all on a cursor that stands at k, over a container of length
\* N >= k, returns the elements at the indices k..N-1 in order and none of
\* those before k; on an exhausted cursor, so after an earlier get_all, it
\* returns the empty sequence.
C18_DrainReturnsSuffix ==
    LET N == Len(Contents(obj)) IN
    last.op = "get_all" /\ last.it \in Cursors /\ last.entry <= N =>
        /\ last.res.tag = "Ok"
        /\ last.elems = SubSeq(Contents(obj), last.entry + 1, N)
        /\ Len(last.elems) = last.taken
        /\ (last.wasExh = "clean" => last.elems = <<>>)

C18_Witness ==
    /\ last.op = "get_all" /\ last.it \in Cursors
    /\ ~mutated[last.it]
    /\ last.wasExh = "clean"
    /\ last.entry = 3
    /\ last.elems = <<>>
    /\ Contents(obj)[1] # Contents(obj)[2]

\* get_all on a half-used cursor returned the rest, which differs from the start.
C18_SuffixWitness ==
    /\ last.op = "get_all" /\ last.it \in Cursors
    /\ ~mutated[last.it]
    /\ last.entry = 1 /\ Len(last.elems) = 2
    /\ last.elems # SubSeq(Contents(obj), 1, 2)

====
